---- MODULE Spec2Model ----
(***************************************************************************)
(* A model of the todo package: the storage layer (todo/storage.py), the   *)
(* task manager (todo/core.py) and the command line (todo/__main__.py).    *)
(*                                                                         *)
(* Python values are modelled as records tagged with their type;           *)
(* the text of a file is a sequence of JSON lexemes (tokens), so that      *)
(* json.dump and json.load are real conversions: dump flattens a value to  *)
(* tokens, load parses tokens back and fails on anything that is not one   *)
(* complete JSON value.  The file system has names, files and open         *)
(* descriptors, so that open(..., 'w') truncates the file a name already   *)
(* refers to and replace() atomically rebinds a name.                      *)
(***************************************************************************)
EXTENDS Integers, Sequences, FiniteSets, TLC

(***************************************************************************)
(* Bounds of the model.                                                    *)
(***************************************************************************)
\* successful add calls per behaviour
MaxAdds == 3
\* largest id in the documents a store may hold before the first operation
MaxInitId == 2
\* successful add calls per behaviour that starts from such a store
MaxStoreAdds == 1

\* successful add calls per behaviour that remembers the tasks returned
MaxTracked == 2

\* tokens a process hands to the file in one write: the buffer of the file
\* object, counted in tokens
ChunkTokens == 3
\* calls the processes of the stepwise specifications make, all together
MaxProcCalls == 2

\* the inputs of the operations
Descriptions == {"", "a"}
Times == {"t0"}
TaskIds == (0 - 1)..(MaxAdds + 1)
\* the inputs of the processes of the stepwise specifications
ProcDescriptions == {"a"}
\* what the second process adds, to tell its tasks from those of the first
OtherDescriptions == {"b"}
ProcTaskIds == 1..MaxProcCalls

(***************************************************************************)
(* Python values.                                                          *)
(***************************************************************************)
\* Each type keeps its payload in a field of its own name, so that two values
\* of different types are unequal records and never compare payloads.
JInt(n) == [t |-> "int", int |-> n]
JStr(s) == [t |-> "str", str |-> s]
JBool(b) == [t |-> "bool", bool |-> b]
JList(s) == [t |-> "list", list |-> s]
\* a dict is the sequence of its items [k |-> key, v |-> value] in insertion
\* order, with distinct keys
JDict(items) == [t |-> "dict", dict |-> items]
Item(k, x) == [k |-> k, v |-> x]

\* key in d
HasKey(d, k) == \E i \in 1..Len(d.dict) : d.dict[i].k = k

\* d[key]
GetKey(d, k) == d.dict[CHOOSE i \in 1..Len(d.dict) : d.dict[i].k = k].v

\* d[key] = x : an existing key keeps its position, a new key goes last
SetKey(d, k, x) ==
    IF HasKey(d, k)
    THEN JDict([i \in 1..Len(d.dict) |->
                   IF d.dict[i].k = k THEN Item(k, x) ELSE d.dict[i]])
    ELSE JDict(Append(d.dict, Item(k, x)))

(***************************************************************************)
(* The text of a file: a sequence of tokens.                               *)
(***************************************************************************)
Punct(c) == [tok |-> c]
KeyTok(k) == [tok |-> "key", key |-> k]
IntTok(n) == [tok |-> "int", int |-> n]
StrTok(s) == [tok |-> "str", str |-> s]
BoolTok(b) == [tok |-> "bool", bool |-> b]
LBrace == Punct("{")
RBrace == Punct("}")
LBracket == Punct("[")
RBracket == Punct("]")
\* a lexeme that is not JSON, such as the bare words of  {invalid json
Junk == Punct("junk")
\* a zero byte: the hole left by a write past the end of a truncated file
Nul == Punct("nul")
\* bytes that are not UTF-8, which open(..., encoding='utf-8') cannot decode
BadByte == Punct("badbyte")

RECURSIVE DumpValue(_)
RECURSIVE DumpElements(_)
RECURSIVE DumpItems(_)
\* json.dump: the tokens of a value, dict items in insertion order
DumpValue(x) ==
    CASE x.t = "int" -> <<IntTok(x.int)>>
      [] x.t = "str" -> <<StrTok(x.str)>>
      [] x.t = "bool" -> <<BoolTok(x.bool)>>
      [] x.t = "list" -> <<LBracket>> \o DumpElements(x.list) \o <<RBracket>>
      [] x.t = "dict" -> <<LBrace>> \o DumpItems(x.dict) \o <<RBrace>>
DumpElements(s) ==
    IF s = <<>> THEN <<>> ELSE DumpValue(Head(s)) \o DumpElements(Tail(s))
DumpItems(s) ==
    IF s = <<>> THEN <<>>
    ELSE <<KeyTok(Head(s).k)>> \o DumpValue(Head(s).v) \o DumpItems(Tail(s))

json_dump(x) == DumpValue(x)

ParseFail == [ok |-> FALSE, val |-> JInt(0), next |-> 0]
ParseOk(x, n) == [ok |-> TRUE, val |-> x, next |-> n]

RECURSIVE ParseValue(_, _)
RECURSIVE ParseElements(_, _, _)
RECURSIVE ParseItems(_, _, _)
\* the value that starts at token i, and the index after it
ParseValue(toks, i) ==
    IF i > Len(toks) THEN ParseFail
    ELSE LET tk == toks[i] IN
         CASE tk.tok = "int" -> ParseOk(JInt(tk.int), i + 1)
           [] tk.tok = "str" -> ParseOk(JStr(tk.str), i + 1)
           [] tk.tok = "bool" -> ParseOk(JBool(tk.bool), i + 1)
           [] tk.tok = "[" -> ParseElements(toks, i + 1, <<>>)
           [] tk.tok = "{" -> ParseItems(toks, i + 1, JDict(<<>>))
           [] OTHER -> ParseFail
ParseElements(toks, i, acc) ==
    IF i > Len(toks) THEN ParseFail
    ELSE IF toks[i].tok = "]" THEN ParseOk(JList(acc), i + 1)
    ELSE LET r == ParseValue(toks, i) IN
         IF r.ok THEN ParseElements(toks, r.next, Append(acc, r.val)) ELSE ParseFail
ParseItems(toks, i, acc) ==
    IF i > Len(toks) THEN ParseFail
    ELSE IF toks[i].tok = "}" THEN ParseOk(acc, i + 1)
    ELSE IF toks[i].tok = "key"
    THEN LET r == ParseValue(toks, i + 1) IN
         IF r.ok THEN ParseItems(toks, r.next, SetKey(acc, toks[i].key, r.val))
         ELSE ParseFail
    ELSE ParseFail

\* json.load(f): f.read() decodes the whole file, which raises
\* UnicodeDecodeError on bytes that are not UTF-8; the text must then be one
\* value, otherwise JSONDecodeError
json_load(toks) ==
    LET r == ParseValue(toks, 1) IN
    IF \E i \in 1..Len(toks) : toks[i] = BadByte
    THEN [ok |-> FALSE, val |-> JInt(0), exc |-> "UnicodeDecodeError"]
    ELSE IF r.ok /\ r.next = Len(toks) + 1
    THEN [ok |-> TRUE, val |-> r.val, exc |-> "none"]
    ELSE [ok |-> FALSE, val |-> JInt(0), exc |-> "JSONDecodeError"]

(***************************************************************************)
(* The file system: two names, inodes with their text, open descriptors.   *)
(***************************************************************************)
\* STORAGE_FILE = Path.home() / ".todo.json"
STORAGE_FILE == "STORAGE_FILE"
\* temp_file naming the storage file itself: the text is written in place
temp_file_in_place == "STORAGE_FILE"

\* temp_file = STORAGE_FILE.with_suffix('.tmp'): one fixed name per store
temp_file == "temp_file"
FileNames == {STORAGE_FILE, temp_file}

\* A file (an inode) is the set of names bound to it, the set of descriptors
\* open on it, its text, the exception that reading it raises and the
\* exception that opening it for writing raises ("none" for a file that can
\* be read, or written); the file system is the set of files that have a
\* name or an open descriptor.  A name is bound to at most one file and a
\* descriptor is open on at most one.
File(names, fds, text) ==
    [names |-> names, fds |-> fds, text |-> text,
     read_exc |-> "none", write_exc |-> "none"]

\* the file f with mode bits that deny reading (PermissionError), or on a
\* device that fails (OSError)
Unreadable(f, exc) == [f EXCEPT !.read_exc = exc]
ReadExceptions == {"PermissionError", "OSError"}

\* the file f with mode bits that deny writing (PermissionError), or a
\* directory of that name (IsADirectoryError)
Unwritable(f, exc) == [f EXCEPT !.write_exc = exc]
WriteExceptions == {"PermissionError", "IsADirectoryError"}

\* no file at all
EmptyFs == {}

\* Path.exists()
FsExists(fs, n) == \E f \in fs : n \in f.names

\* the file named n, and the file descriptor d is open on
Named(fs, n) == CHOOSE f \in fs : n \in f.names
OpenOn(fs, d) == CHOOSE f \in fs : d \in f.fds

\* a file nobody refers to is freed
Reclaim(fs) == {f \in fs : f.names # {} \/ f.fds # {}}

\* the whole text of the file named n
FsRead(fs, n) == Named(fs, n).text

\* the exception that open(n, 'r') or the read raises, "none" without one
FsReadExc(fs, n) == Named(fs, n).read_exc

\* the exception that open(n, 'w') raises, "none" without one
FsOpenWExc(fs, n) == IF FsExists(fs, n) THEN Named(fs, n).write_exc ELSE "none"

\* d = open(n, 'w'): O_CREAT | O_TRUNC.  An existing file stays the same file
\* and loses its text; a missing one is created.
FsOpenW(fs, n, d) ==
    IF FsExists(fs, n)
    THEN LET f == Named(fs, n) IN
         (fs \ {f}) \cup {[f EXCEPT !.fds = @ \cup {d}, !.text = <<>>]}
    ELSE fs \cup {File({n}, {d}, <<>>)}

\* d.write(toks) at offset off: a gap before off reads as zero bytes
FsWrite(fs, d, off, toks) ==
    LET f == OpenOn(fs, d)
        old == f.text
        end == off + Len(toks)
        n == IF Len(old) > end THEN Len(old) ELSE end
        text == [p \in 1..n |-> IF p > off /\ p <= end THEN toks[p - off]
                                 ELSE IF p <= Len(old) THEN old[p]
                                 ELSE Nul]
    IN (fs \ {f}) \cup {[f EXCEPT !.text = text]}

\* d.close()
FsClose(fs, d) ==
    LET f == OpenOn(fs, d) IN
    Reclaim((fs \ {f}) \cup {[f EXCEPT !.fds = @ \ {d}]})

\* a rename that leaves a dst that exists alone and only drops the name src
FsReplaceNoClobber(fs, src, dst) ==
    LET f == Named(fs, src) IN
    IF FsExists(fs, dst)
    THEN Reclaim((fs \ {f}) \cup {[f EXCEPT !.names = @ \ {src}]})
    ELSE Reclaim((fs \ {f}) \cup {[f EXCEPT !.names = (@ \ {src}) \cup {dst}]})

\* src.replace(dst): dst atomically names src's file, the name src goes away
FsReplace(fs, src, dst) ==
    LET f == Named(fs, src)
        unbound == {[g EXCEPT !.names = @ \ {dst}] : g \in fs \ {f}}
    IN Reclaim(unbound \cup {[f EXCEPT !.names = (@ \ {src}) \cup {dst}]})

(***************************************************************************)
(* todo/storage.py                                                         *)
(***************************************************************************)
\* _get_default_data()
DefaultData == JDict(<<Item("tasks", JList(<<>>)), Item("next_id", JInt(1))>>)

\* what load_data gives its caller: data, or the exception exc
Loaded(data, warned) == [data |-> data, warned |-> warned, exc |-> "none"]
LoadRaised(exc) == [data |-> [t |-> "None"], warned |-> FALSE, exc |-> exc]

\* load_data that rejects a dict only when both keys are missing
load_data_either_key(fs) ==
    IF ~FsExists(fs, STORAGE_FILE)
    THEN Loaded(DefaultData, FALSE)
    ELSE IF FsReadExc(fs, STORAGE_FILE) # "none"
    THEN LoadRaised(FsReadExc(fs, STORAGE_FILE))
    ELSE LET r == json_load(FsRead(fs, STORAGE_FILE)) IN
         IF r.exc = "JSONDecodeError"
         THEN Loaded(DefaultData, TRUE)
         ELSE IF r.exc # "none"
         THEN LoadRaised(r.exc)
         ELSE IF r.val.t # "dict" \/ (~HasKey(r.val, "tasks") /\ ~HasKey(r.val, "next_id"))
         THEN Loaded(DefaultData, TRUE)
         ELSE Loaded(r.val, FALSE)

\* load_data that takes every exception of the read for a corrupted file
load_data_swallowing(fs) ==
    IF ~FsExists(fs, STORAGE_FILE)
    THEN Loaded(DefaultData, FALSE)
    ELSE IF FsReadExc(fs, STORAGE_FILE) # "none"
    THEN Loaded(DefaultData, TRUE)
    ELSE LET r == json_load(FsRead(fs, STORAGE_FILE)) IN
         IF r.exc # "none"
         THEN Loaded(DefaultData, TRUE)
         ELSE IF r.val.t # "dict" \/ ~HasKey(r.val, "tasks") \/ ~HasKey(r.val, "next_id")
         THEN Loaded(DefaultData, TRUE)
         ELSE Loaded(r.val, FALSE)

\* load_data(): only JSONDecodeError counts as a corrupted file; any other
\* exception of the open or the read is reported and raised again
load_data(fs) ==
    IF ~FsExists(fs, STORAGE_FILE)
    THEN Loaded(DefaultData, FALSE)
    ELSE IF FsReadExc(fs, STORAGE_FILE) # "none"
    THEN LoadRaised(FsReadExc(fs, STORAGE_FILE))
    ELSE LET r == json_load(FsRead(fs, STORAGE_FILE)) IN
         IF r.exc = "JSONDecodeError"
         THEN Loaded(DefaultData, TRUE)
         ELSE IF r.exc # "none"
         THEN LoadRaised(r.exc)
         ELSE IF r.val.t # "dict" \/ ~HasKey(r.val, "tasks") \/ ~HasKey(r.val, "next_id")
         THEN Loaded(DefaultData, TRUE)
         ELSE Loaded(r.val, FALSE)

\* save_data without the rename
save_data_no_replace(fs, data) ==
    LET o == FsOpenW(fs, temp_file, 0)
        w == FsWrite(o, 0, 0, json_dump(data))
    IN FsClose(w, 0)

\* the exception save_data reports and raises again: that of the open
save_data_exc(fs) == FsOpenWExc(fs, temp_file)

\* save_data(data), run without interruption: write the temporary file,
\* close it, rename it onto STORAGE_FILE; nothing of it when the open raises
save_data(fs, data) ==
    LET o == FsOpenW(fs, temp_file, 0)
        w == FsWrite(o, 0, 0, json_dump(data))
        c == FsClose(w, 0)
    IN IF save_data_exc(fs) # "none" THEN fs
       ELSE FsReplace(c, temp_file, STORAGE_FILE)

(***************************************************************************)
(* todo/core.py.  Each operation is a function of the file system, giving  *)
(* the file system after it, the value returned (ret), the exception that  *)
(* left it (exc, "none" for a normal return), whether load_data warned,    *)
(* whether save_data ran and the data it was given.                        *)
(***************************************************************************)
\* Python's None
JNone == [t |-> "None"]

Outcome(fs, ret, exc, warned) ==
    [fs |-> fs, ret |-> ret, exc |-> exc, warned |-> warned,
     saved |-> FALSE, data |-> JNone]

\* the outcome of an operation that ends with save_data(data): what it
\* returns, or the exception of save_data
Saved(fs, data, ret, warned) ==
    [fs |-> save_data(fs, data),
     ret |-> IF save_data_exc(fs) = "none" THEN ret ELSE JNone,
     exc |-> save_data_exc(fs), warned |-> warned,
     saved |-> TRUE, data |-> data]

\* x == n for an int n: bool is an int in Python (True == 1)
EqInt(x, n) ==
    \/ x.t = "int" /\ x.int = n
    \/ x.t = "bool" /\ n = (IF x.bool THEN 1 ELSE 0)

\* the elements  for task in x  visits, and whether x can be iterated at all
Iterable(x) == x.t \in {"list", "str", "dict"}
Elements(x) ==
    CASE x.t = "list" -> x.list
      [] x.t = "dict" -> [i \in 1..Len(x.dict) |-> JStr(x.dict[i].k)]
      [] x.t = "str" -> IF x.str = "" THEN <<>> ELSE <<JStr(x.str)>>
      [] OTHER -> <<>>

\* task["id"] evaluates only when task is a dict that has the key
HasId(task) == task.t = "dict" /\ HasKey(task, "id")

\* task["id"] == task_id
Matches(task, task_id) == HasId(task) /\ EqInt(GetKey(task, "id"), task_id)

\* NewTask with the id taken from the number of tasks instead of next_id
NewTaskCounted(data, description, now) ==
    JDict(<<Item("id", JInt(Len(GetKey(data, "tasks").list) + 1)),
            Item("description", JStr(description)),
            Item("completed", JBool(FALSE)),
            Item("created_at", JStr(now))>>)

\* the task add_task builds, with now the value of datetime.now().isoformat()
NewTask(data, description, now) ==
    JDict(<<Item("id", GetKey(data, "next_id")),
            Item("description", JStr(description)),
            Item("completed", JBool(FALSE)),
            Item("created_at", JStr(now))>>)

\* Increment with the increment forgotten
NoIncrement(n) == n

\* data["next_id"] += 1, on the number n
Increment(n) == n + 1

\* add_task(description)
add_task(fs, description, now) ==
    LET ld == load_data(fs)
        data == ld.data
        task == NewTask(data, description, now)
        tasks == GetKey(data, "tasks")
        next_id == GetKey(data, "next_id")
    IN IF ld.exc # "none"
       THEN Outcome(fs, JNone, ld.exc, FALSE)
       ELSE IF tasks.t # "list"
       THEN Outcome(fs, JNone, "AttributeError", ld.warned)
       ELSE IF next_id.t \notin {"int", "bool"}
       THEN Outcome(fs, JNone, "TypeError", ld.warned)
       ELSE LET n == IF next_id.t = "int" THEN next_id.int
                     ELSE IF next_id.bool THEN 1 ELSE 0
                d1 == SetKey(data, "tasks", JList(Append(tasks.list, task)))
                d2 == SetKey(d1, "next_id", JInt(Increment(n)))
            IN Saved(fs, d2, task, ld.warned)

\* list_tasks that writes back what it loaded
list_tasks_saving(fs) ==
    LET ld == load_data(fs) IN
    IF ld.exc # "none"
    THEN Outcome(fs, JNone, ld.exc, FALSE)
    ELSE Saved(fs, ld.data, GetKey(ld.data, "tasks"), ld.warned)

\* list_tasks()
list_tasks(fs) ==
    LET ld == load_data(fs) IN
    IF ld.exc # "none"
    THEN Outcome(fs, JNone, ld.exc, FALSE)
    ELSE Outcome(fs, GetKey(ld.data, "tasks"), "none", ld.warned)

\* FirstHit as the lookup s[task_id - 1] would find it: Python counts a
\* negative index from the end
FirstHitByIndex(s, task_id, i) ==
    IF task_id >= 1 /\ task_id <= Len(s) THEN task_id
    ELSE IF task_id <= 0 /\ 1 - task_id <= Len(s) THEN Len(s) + task_id
    ELSE Len(s) + 1

\* FirstHit that finds the last match instead of the first
LastHit(s, task_id, i) ==
    IF \E j \in 1..Len(s) : Matches(s[j], task_id)
    THEN CHOOSE j \in 1..Len(s) :
             /\ Matches(s[j], task_id)
             /\ \A k \in (j + 1)..Len(s) : ~Matches(s[k], task_id)
    ELSE Len(s) + 1

\* the first index of s that matches task_id or cannot be asked for its id;
\* Len(s) + 1 when the scan ends without either
RECURSIVE FirstHit(_, _, _)
FirstHit(s, task_id, i) ==
    IF i > Len(s) THEN i
    ELSE IF ~HasId(s[i]) \/ Matches(s[i], task_id) THEN i
    ELSE FirstHit(s, task_id, i + 1)

\* complete_task that flips the flag instead of setting it
complete_task_toggling(fs, task_id) ==
    LET ld == load_data(fs)
        data == ld.data
        tasks == GetKey(data, "tasks")
        s == Elements(tasks)
        i == FirstHit(s, task_id, 1)
    IN IF ld.exc # "none"
       THEN Outcome(fs, JNone, ld.exc, FALSE)
       ELSE IF ~Iterable(tasks)
       THEN Outcome(fs, JNone, "TypeError", ld.warned)
       ELSE IF i > Len(s)
       THEN Outcome(fs, JBool(FALSE), "none", ld.warned)
       ELSE IF ~HasId(s[i])
       THEN Outcome(fs, JNone, IF s[i].t = "dict" THEN "KeyError" ELSE "TypeError",
                    ld.warned)
       ELSE LET t2 == SetKey(s[i], "completed",
                             JBool(GetKey(s[i], "completed") # JBool(TRUE)))
                d2 == SetKey(data, "tasks",
                             JList([j \in 1..Len(s) |-> IF j = i THEN t2 ELSE s[j]]))
            IN Saved(fs, d2, JBool(TRUE), ld.warned)

\* complete_task(task_id)
complete_task(fs, task_id) ==
    LET ld == load_data(fs)
        data == ld.data
        tasks == GetKey(data, "tasks")
        s == Elements(tasks)
        i == FirstHit(s, task_id, 1)
    IN IF ld.exc # "none"
       THEN Outcome(fs, JNone, ld.exc, FALSE)
       ELSE IF ~Iterable(tasks)
       THEN Outcome(fs, JNone, "TypeError", ld.warned)
       ELSE IF i > Len(s)
       THEN Outcome(fs, JBool(FALSE), "none", ld.warned)
       ELSE IF ~HasId(s[i])
       THEN Outcome(fs, JNone, IF s[i].t = "dict" THEN "KeyError" ELSE "TypeError",
                    ld.warned)
       ELSE LET t2 == SetKey(s[i], "completed", JBool(TRUE))
                d2 == SetKey(data, "tasks",
                             JList([j \in 1..Len(s) |-> IF j = i THEN t2 ELSE s[j]]))
            IN Saved(fs, d2, JBool(TRUE), ld.warned)

\* Without that stops at the first match, as list.remove would
RECURSIVE WithoutFirst(_, _)
WithoutFirst(s, task_id) ==
    IF s = <<>> THEN <<>>
    ELSE IF Matches(Head(s), task_id) THEN Tail(s)
    ELSE <<Head(s)>> \o WithoutFirst(Tail(s), task_id)

\* [task for task in s if task["id"] != task_id]
RECURSIVE Without(_, _)
Without(s, task_id) ==
    IF s = <<>> THEN <<>>
    ELSE IF Matches(Head(s), task_id) THEN Without(Tail(s), task_id)
    ELSE <<Head(s)>> \o Without(Tail(s), task_id)

\* Remaining with the counter reset to follow the tasks that are left
RemainingRenumbered(data, kept) ==
    SetKey(SetKey(data, "tasks", JList(kept)), "next_id", JInt(Len(kept) + 1))

\* data["tasks"] = kept
Remaining(data, kept) == SetKey(data, "tasks", JList(kept))

\* delete_task(task_id)
delete_task(fs, task_id) ==
    LET ld == load_data(fs)
        data == ld.data
        tasks == GetKey(data, "tasks")
        s == Elements(tasks)
        kept == Without(s, task_id)
    IN IF ld.exc # "none"
       THEN Outcome(fs, JNone, ld.exc, FALSE)
       ELSE IF ~Iterable(tasks)
       THEN Outcome(fs, JNone, "TypeError", ld.warned)
       ELSE IF \E i \in 1..Len(s) : ~HasId(s[i])
       THEN Outcome(fs, JNone,
                    IF s[CHOOSE i \in 1..Len(s) :
                             ~HasId(s[i]) /\ \A j \in 1..(i - 1) : HasId(s[j])].t = "dict"
                    THEN "KeyError" ELSE "TypeError",
                    ld.warned)
       ELSE IF Len(kept) < Len(s)
       THEN Saved(fs, Remaining(data, kept), JBool(TRUE), ld.warned)
       ELSE Outcome(fs, JBool(FALSE), "none", ld.warned)

\* get_task(task_id)
get_task(fs, task_id) ==
    LET ld == load_data(fs)
        tasks == GetKey(ld.data, "tasks")
        s == Elements(tasks)
        i == FirstHit(s, task_id, 1)
    IN IF ld.exc # "none"
       THEN Outcome(fs, JNone, ld.exc, FALSE)
       ELSE IF ~Iterable(tasks)
       THEN Outcome(fs, JNone, "TypeError", ld.warned)
       ELSE IF i > Len(s)
       THEN Outcome(fs, JNone, "none", ld.warned)
       ELSE IF ~HasId(s[i])
       THEN Outcome(fs, JNone, IF s[i].t = "dict" THEN "KeyError" ELSE "TypeError",
                    ld.warned)
       ELSE Outcome(fs, s[i], "none", ld.warned)

(***************************************************************************)
(* todo/__main__.py.  A word of the command line is a sequence of          *)
(* characters, so that int(), str.lower() and " ".join() are conversions.  *)
(***************************************************************************)
Digits == {"0", "1", "2", "3", "4", "5", "6", "7", "8", "9"}
DigitValue(c) ==
    CASE c = "0" -> 0 [] c = "1" -> 1 [] c = "2" -> 2 [] c = "3" -> 3 [] c = "4" -> 4
      [] c = "5" -> 5 [] c = "6" -> 6 [] c = "7" -> 7 [] c = "8" -> 8 [] c = "9" -> 9

\* the str of a word
RECURSIVE Text(_)
Text(w) == IF w = <<>> THEN "" ELSE Head(w) \o Text(Tail(w))

\* " ".join(args)
RECURSIVE Join(_)
Join(args) ==
    IF args = <<>> THEN ""
    ELSE IF Len(args) = 1 THEN Text(args[1])
    ELSE Text(args[1]) \o " " \o Join(Tail(args))

\* str.lower(), on the letters of the command names
LowerChar(c) ==
    CASE c = "A" -> "a" [] c = "D" -> "d" [] c = "E" -> "e" [] c = "I" -> "i"
      [] c = "L" -> "l" [] c = "N" -> "n" [] c = "O" -> "o" [] c = "S" -> "s"
      [] c = "T" -> "t" [] OTHER -> c
Lower(w) == [i \in 1..Len(w) |-> LowerChar(w[i])]

\* str.strip() of blanks
RECURSIVE Strip(_)
Strip(w) ==
    IF w = <<>> THEN w
    ELSE IF Head(w) = " " THEN Strip(Tail(w))
    ELSE IF w[Len(w)] = " " THEN Strip(SubSeq(w, 1, Len(w) - 1))
    ELSE w

RECURSIVE Decimal(_)
Decimal(w) ==
    IF w = <<>> THEN 0
    ELSE 10 * Decimal(SubSeq(w, 1, Len(w) - 1)) + DigitValue(w[Len(w)])

\* int() that reads a word that is no number as 0
int_lenient(w) ==
    LET t == Strip(w)
        signed == t # <<>> /\ Head(t) \in {"+", "-"}
        digs == IF signed THEN Tail(t) ELSE t
    IN IF digs = <<>> \/ \E i \in 1..Len(digs) : digs[i] \notin Digits
       THEN [ok |-> TRUE, int |-> 0]
       ELSE [ok |-> TRUE,
             int |-> IF signed /\ Head(t) = "-" THEN 0 - Decimal(digs) ELSE Decimal(digs)]

\* int(w): blanks around, an optional sign, decimal digits; anything else is
\* a ValueError (ok = FALSE)
int(w) ==
    LET t == Strip(w)
        signed == t # <<>> /\ Head(t) \in {"+", "-"}
        digs == IF signed THEN Tail(t) ELSE t
    IN IF digs = <<>> \/ \E i \in 1..Len(digs) : digs[i] \notin Digits
       THEN [ok |-> FALSE, int |-> 0]
       ELSE [ok |-> TRUE,
             int |-> IF signed /\ Head(t) = "-" THEN 0 - Decimal(digs) ELSE Decimal(digs)]

\* How a command ends: the exception that leaves it ("none" when it
\* returns, "SystemExit" with its code after sys.exit), the task manager
\* call it made (op "none" when it made none) and the Outcome of that call.
Returns(op, arg, out) ==
    [fs |-> out.fs, exc |-> "none", code |-> 0, op |-> op, arg |-> arg, out |-> out]
Raises(op, arg, out) ==
    [fs |-> out.fs, exc |-> out.exc, code |-> 0, op |-> op, arg |-> arg, out |-> out]
Exits(code, op, arg, out) ==
    [fs |-> out.fs, exc |-> "SystemExit", code |-> code, op |-> op, arg |-> arg,
     out |-> out]
\* no task manager call was made
NoOutcome(fs) == Outcome(fs, JNone, "none", FALSE)

\* the end of cmd_add after add_task: the message, unless add_task raised
Added(description, out) ==
    IF out.exc # "none" THEN Raises("add", JStr(description), out)
    ELSE Returns("add", JStr(description), out)

\* cmd_add(args)
cmd_add(fs, args, now) ==
    IF args = <<>> THEN Exits(1, "none", JNone, NoOutcome(fs))
    ELSE Added(Join(args), add_task(fs, Join(args), now))

\* not x
Falsy(x) ==
    \/ x.t = "None"
    \/ x.t = "list" /\ x.list = <<>>
    \/ x.t = "dict" /\ x.dict = <<>>
    \/ x.t = "str" /\ x.str = ""
    \/ x.t = "int" /\ x.int = 0
    \/ x.t = "bool" /\ ~x.bool

\* format_task(task) reads task["completed"], task["id"], task["description"]
Formats(task) ==
    /\ task.t = "dict"
    /\ HasKey(task, "completed") /\ HasKey(task, "id") /\ HasKey(task, "description")

\* the exception that leaves the printing of tasks, "none" without one
PrintExc(tasks) ==
    LET s == Elements(tasks) IN
    IF Falsy(tasks) THEN "none"
    ELSE IF ~Iterable(tasks) THEN "TypeError"
    ELSE IF \A i \in 1..Len(s) : Formats(s[i]) THEN "none"
    ELSE IF s[CHOOSE i \in 1..Len(s) :
                  ~Formats(s[i]) /\ \A j \in 1..(i - 1) : Formats(s[j])].t = "dict"
    THEN "KeyError" ELSE "TypeError"

\* the end of cmd_list after list_tasks: the tasks are printed
Listed(out) ==
    IF out.exc # "none" THEN Raises("list", JNone, out)
    ELSE IF PrintExc(out.ret) # "none"
    THEN Raises("list", JNone, [out EXCEPT !.exc = PrintExc(out.ret)])
    ELSE Returns("list", JNone, out)

\* cmd_list(args)
cmd_list(fs, args) == Listed(list_tasks(fs))

\* the end of cmd_done and cmd_delete after the task manager call op: the
\* message when it returned True, "not found" and sys.exit(1) otherwise
Found(op, task_id, out) ==
    IF out.exc # "none" THEN Raises(op, JInt(task_id), out)
    ELSE IF out.ret = JBool(TRUE) THEN Returns(op, JInt(task_id), out)
    ELSE Exits(1, op, JInt(task_id), out)

\* cmd_done(args)
cmd_done(fs, args) ==
    IF args = <<>> THEN Exits(1, "none", JNone, NoOutcome(fs))
    ELSE IF ~int(args[1]).ok THEN Exits(1, "none", JNone, NoOutcome(fs))
    ELSE Found("complete", int(args[1]).int, complete_task(fs, int(args[1]).int))

\* cmd_delete(args)
cmd_delete(fs, args) ==
    IF args = <<>> THEN Exits(1, "none", JNone, NoOutcome(fs))
    ELSE IF ~int(args[1]).ok THEN Exits(1, "none", JNone, NoOutcome(fs))
    ELSE Found("delete", int(args[1]).int, delete_task(fs, int(args[1]).int))

\* the keys of the dict  commands
CommandNames == {"add", "list", "done", "delete"}

\* commands[command](args)
RunCommand(fs, command, args, now) ==
    CASE command = "add" -> cmd_add(fs, args, now)
      [] command = "list" -> cmd_list(fs, args)
      [] command = "done" -> cmd_done(fs, args)
      [] command = "delete" -> cmd_delete(fs, args)

\* an exit status that reports only sys.exit
ExitStatusOfExit(r) == IF r.exc = "SystemExit" THEN r.code ELSE 0

\* the exit status of the process: 0 when the command returns, the code of
\* sys.exit, and 1 from  except Exception  for any other exception
ExitStatus(r) ==
    IF r.exc = "none" THEN 0
    ELSE IF r.exc = "SystemExit" THEN r.code
    ELSE 1

\* the end of main: the result r of the command with the exit status of the
\* process (status)
Ended(r, unknown) ==
    [fs |-> r.fs, status |-> ExitStatus(r), unknown |-> unknown,
     exc |-> r.exc, op |-> r.op, arg |-> r.arg, out |-> r.out]

\* main(), with sys.argv = argv
main(fs, argv, now) ==
    IF Len(argv) < 2 THEN Ended(Exits(1, "none", JNone, NoOutcome(fs)), FALSE)
    ELSE IF Text(Lower(argv[2])) \in CommandNames
    THEN Ended(RunCommand(fs, Text(Lower(argv[2])), SubSeq(argv, 3, Len(argv)), now),
               FALSE)
    ELSE Ended(Exits(1, "none", JNone, NoOutcome(fs)), TRUE)

(***************************************************************************)
(* The reference the task manager is compared with: a task sequence and a  *)
(* counter kept in memory, and the value its last call returned.  A task   *)
(* is a record with the four fields.  A reference that is not on stays as  *)
(* it is.                                                                  *)
(***************************************************************************)
NoRet == [nothing |-> TRUE]
Absent == [absent |-> TRUE]

RefInit == [on |-> TRUE, tasks |-> <<>>, next_id |-> 1, ret |-> NoRet]
NoRef == [on |-> FALSE, tasks |-> <<>>, next_id |-> 1, ret |-> NoRet]

\* the indices of the tasks of r that have the id
RefHits(r, id) == {i \in 1..Len(r.tasks) : r.tasks[i].id = id}
RefFirst(r, id) == CHOOSE i \in RefHits(r, id) : \A j \in RefHits(r, id) : i <= j

RefAdd(r, description, now) ==
    LET t == [id |-> r.next_id, description |-> description,
              completed |-> FALSE, created_at |-> now]
    IN IF ~r.on THEN r
       ELSE [r EXCEPT !.tasks = Append(@, t), !.next_id = @ + 1, !.ret = t]

RefList(r) == IF ~r.on THEN r ELSE [r EXCEPT !.ret = r.tasks]

RefComplete(r, id) ==
    IF ~r.on THEN r
    ELSE IF RefHits(r, id) = {} THEN [r EXCEPT !.ret = FALSE]
    ELSE [r EXCEPT !.tasks[RefFirst(r, id)].completed = TRUE, !.ret = TRUE]

RefDelete(r, id) ==
    IF ~r.on THEN r
    ELSE [r EXCEPT !.tasks = SelectSeq(@, LAMBDA t : t.id # id),
                   !.ret = RefHits(r, id) # {}]

RefGet(r, id) ==
    IF ~r.on THEN r
    ELSE IF RefHits(r, id) = {} THEN [r EXCEPT !.ret = Absent]
    ELSE [r EXCEPT !.ret = r.tasks[RefFirst(r, id)]]

(***************************************************************************)
(* One process calling the task manager, one call after the other.         *)
(***************************************************************************)
VARIABLES
    fs,        \* the file system
    prev,      \* history: the file system before the last call
    last,      \* history: the last call, its argument and its Outcome
    returned,  \* history: the ids of the tasks add_task returned, in order
    proc,      \* the processes that are inside save_data, step by step
    calls,     \* the number of calls these processes have begun
    ref        \* the reference, given the same calls

vars == <<fs, prev, last, returned, proc, calls, ref>>

Procs == {1, 2}

\* a process that is not inside a call
IdleProc ==
    [pc |-> "idle", op |-> "none", arg |-> JNone, ret |-> JNone, data |-> JNone,
     warned |-> FALSE, off |-> 0, before |-> EmptyFs]

NoCall ==
    [op |-> "none", arg |-> JNone, ret |-> JNone, exc |-> "none",
     warned |-> FALSE, saved |-> FALSE, data |-> JNone]

Call(op, arg, out) ==
    [op |-> op, arg |-> arg, ret |-> out.ret, exc |-> out.exc,
     warned |-> out.warned, saved |-> out.saved, data |-> out.data]

\* the store does not exist yet
Init ==
    /\ fs = EmptyFs
    /\ prev = EmptyFs
    /\ last = NoCall
    /\ returned = <<>>
    /\ proc = [p \in Procs |-> IdleProc]
    /\ calls = 0
    /\ ref = RefInit

Add(description, now) ==
    /\ Len(returned) < MaxAdds
    /\ LET out == add_task(fs, description, now) IN
       /\ fs' = out.fs
       /\ prev' = fs
       /\ last' = Call("add", JStr(description), out)
       /\ returned' = IF out.exc = "none"
                      THEN Append(returned, GetKey(out.ret, "id"))
                      ELSE returned
       /\ ref' = RefAdd(ref, description, now)
       /\ UNCHANGED <<proc, calls>>

List ==
    LET out == list_tasks(fs) IN
    /\ fs' = out.fs
    /\ prev' = fs
    /\ last' = Call("list", JNone, out)
    /\ ref' = RefList(ref)
    /\ UNCHANGED <<returned, proc, calls>>

Complete(task_id) ==
    LET out == complete_task(fs, task_id) IN
    /\ fs' = out.fs
    /\ prev' = fs
    /\ last' = Call("complete", JInt(task_id), out)
    /\ ref' = RefComplete(ref, task_id)
    /\ UNCHANGED <<returned, proc, calls>>

Delete(task_id) ==
    LET out == delete_task(fs, task_id) IN
    /\ fs' = out.fs
    /\ prev' = fs
    /\ last' = Call("delete", JInt(task_id), out)
    /\ ref' = RefDelete(ref, task_id)
    /\ UNCHANGED <<returned, proc, calls>>

Get(task_id) ==
    LET out == get_task(fs, task_id) IN
    /\ fs' = out.fs
    /\ prev' = fs
    /\ last' = Call("get", JInt(task_id), out)
    /\ ref' = RefGet(ref, task_id)
    /\ UNCHANGED <<returned, proc, calls>>

Next ==
    \/ \E d \in Descriptions, now \in Times : Add(d, now)
    \/ List
    \/ \E id \in TaskIds : Complete(id)
    \/ \E id \in TaskIds : Delete(id)
    \/ \E id \in TaskIds : Get(id)

Spec == Init /\ [][Next]_vars

(***************************************************************************)
(* The same calls by a caller that keeps every task add_task returned to   *)
(* it: here returned holds the tasks themselves.                           *)
(***************************************************************************)
TrackedAdd(description, now) ==
    /\ Len(returned) < MaxTracked
    /\ LET out == add_task(fs, description, now) IN
       /\ fs' = out.fs
       /\ prev' = fs
       /\ last' = Call("add", JStr(description), out)
       /\ returned' = IF out.exc = "none" THEN Append(returned, out.ret) ELSE returned
       /\ ref' = RefAdd(ref, description, now)
       /\ UNCHANGED <<proc, calls>>

NextTracked ==
    \/ \E d \in Descriptions, now \in Times : TrackedAdd(d, now)
    \/ List
    \/ \E id \in TaskIds : Complete(id)
    \/ \E id \in TaskIds : Delete(id)
    \/ \E id \in TaskIds : Get(id)

SpecTracked == Init /\ [][NextTracked]_vars

(***************************************************************************)
(* The same calls, and load_data and save_data called directly, on a store *)
(* that other runs or an editor left behind: missing, corrupted, or        *)
(* holding any well-formed Document.                                       *)
(***************************************************************************)
\* sequences of length at most n over S
SeqsUpTo(S, n) == UNION {[1..k -> S] : k \in 0..n}

TaskOf(id, description, completed, created_at) ==
    JDict(<<Item("id", JInt(id)),
            Item("description", JStr(description)),
            Item("completed", JBool(completed)),
            Item("created_at", JStr(created_at))>>)

DocOf(tasks, next_id) ==
    JDict(<<Item("tasks", JList(tasks)), Item("next_id", JInt(next_id))>>)

\* well-formed Documents: any task sequence, repeated ids included, and any
\* next_id (Complete reaches the Documents with completed tasks)
StoreDocs ==
    {DocOf(tasks, n) :
        tasks \in SeqsUpTo({TaskOf(id, "a", FALSE, "t9") : id \in 1..MaxInitId}, 2),
        n \in 1..(MaxInitId + 1)}

\* text that is not a Document: an empty file, {invalid json, a Document
\* cut short, a list, {"wrong": "structure"}, a Document without next_id, a
\* Document without tasks
MalformedTexts ==
    {<<>>,
     <<LBrace, Junk, Junk>>,
     <<LBrace, KeyTok("tasks"), LBracket, RBracket, KeyTok("next_id")>>,
     <<LBracket, RBracket>>,
     <<LBrace, KeyTok("wrong"), StrTok("structure"), RBrace>>,
     <<LBrace, KeyTok("tasks"), LBracket, RBracket, RBrace>>,
     <<LBrace, KeyTok("next_id"), IntTok(1), RBrace>>}

\* a file overwritten with bytes that are not UTF-8
UndecodableTexts == {<<BadByte, Junk>>}

\* the files that do not parse to a Document
CorruptTexts == MalformedTexts \cup UndecodableTexts

\* the ids asked for: one that no task has, and those the stores hold
StoreTaskIds == 0..MaxInitId

\* a file system whose only file is STORAGE_FILE, holding text
StoreWith(text) == {File({STORAGE_FILE}, {}, text)}

\* a store that holds a Document and cannot be read
UnreadableStores ==
    {{Unreadable(File({STORAGE_FILE}, {}, json_dump(DocOf(<<TaskOf(1, "a", FALSE, "t9")>>, 2))),
                 exc)} : exc \in ReadExceptions}

InitStore ==
    /\ fs \in {EmptyFs} \cup {StoreWith(t) : t \in CorruptTexts} \cup UnreadableStores
    /\ prev = fs
    /\ last = NoCall
    /\ returned = <<>>
    /\ proc = [p \in Procs |-> IdleProc]
    /\ calls = 0
    /\ ref = NoRef

\* storage.load_data() called directly
Load ==
    LET ld == load_data(fs) IN
    /\ fs' = fs
    /\ prev' = fs
    /\ last' = Call("load", JNone, Outcome(fs, ld.data, ld.exc, ld.warned))
    /\ UNCHANGED <<returned, proc, calls, ref>>

\* storage.save_data(d) called directly, as the first call on a store; the
\* later saves are those of the task manager
Save(d) ==
    /\ last = NoCall
    /\ fs' = save_data(fs, d)
    /\ prev' = fs
    /\ last' = Call("save", JNone, Saved(fs, d, JNone, FALSE))
    /\ UNCHANGED <<returned, proc, calls, ref>>

StoreAdd(description, now) ==
    /\ Len(returned) < MaxStoreAdds
    /\ LET out == add_task(fs, description, now) IN
       /\ fs' = out.fs
       /\ prev' = fs
       /\ last' = Call("add", JStr(description), out)
       /\ returned' = IF out.exc = "none"
                      THEN Append(returned, GetKey(out.ret, "id"))
                      ELSE returned
       /\ UNCHANGED <<proc, calls, ref>>

NextStore ==
    \/ Load
    \/ \E d \in StoreDocs : Save(d)
    \/ \E d \in Descriptions, now \in Times : StoreAdd(d, now)
    \/ List
    \/ \E id \in StoreTaskIds : Complete(id)
    \/ \E id \in StoreTaskIds : Delete(id)
    \/ \E id \in StoreTaskIds : Get(id)

SpecStore == InitStore /\ [][NextStore]_vars

(***************************************************************************)
(* The command line on the stores a first command can find.                *)
(***************************************************************************)
\* the words of the command lines
Word_add == <<"a", "d", "d">>
Word_list == <<"l", "i", "s", "t">>
Word_LIST == <<"L", "I", "S", "T">>
Word_done == <<"d", "o", "n", "e">>
Word_delete == <<"d", "e", "l", "e", "t", "e">>
Word_undo == <<"u", "n", "d", "o">>
CommandWords == {Word_add, Word_list, Word_LIST, Word_done, Word_delete, Word_undo}

\* no argument; 1; -1; " 2"; "a"; ""; 1.5; "1 a" as two words; "a" twice
ArgLists ==
    {<<>>, << <<"1">> >>, << <<"-", "1">> >>, << <<" ", "2">> >>, << <<"a">> >>,
     << <<>> >>, << <<"1", ".", "5">> >>, << <<"1">>, <<"a">> >>,
     << <<"a">>, <<"a">> >>}

\* sys.argv: the name of the program, then the words typed
Argvs ==
    {<< <<"t", "o", "d", "o">> >>} \cup
    {<< <<"t", "o", "d", "o">>, c >> \o a : c \in CommandWords, a \in ArgLists}

\* stores before the first command: missing, holding  {invalid json , bytes
\* that are not UTF-8, a file that cannot be read, and a missing or a
\* corrupted store next to a temporary name that cannot be opened for
\* writing
CliStores ==
    {EmptyFs, StoreWith(<<LBrace, Junk, Junk>>)}
        \cup {StoreWith(t) : t \in UndecodableTexts}
        \cup UnreadableStores
        \cup {{Unwritable(File({temp_file}, {}, <<>>), exc)} : exc \in WriteExceptions}
        \cup {StoreWith(<<LBrace, Junk, Junk>>)
                  \cup {Unwritable(File({temp_file}, {}, <<>>), "PermissionError")}}

InitCli ==
    /\ fs \in CliStores
    /\ prev = fs
    /\ last = NoCall
    /\ returned = <<>>
    /\ proc = [p \in Procs |-> IdleProc]
    /\ calls = 0
    /\ ref = NoRef

\* one run of  python -m todo  with the words of argv; last keeps the words,
\* the exit status and the task manager call the command made
Main(argv, now) ==
    \E r \in {main(fs, argv, now)} :
    /\ r.op = "add" => Len(returned) < MaxStoreAdds
    /\ fs' = r.fs
    /\ prev' = fs
    /\ last' = [op |-> "main", argv |-> argv, status |-> r.status, exc |-> r.exc,
                unknown |-> r.unknown, call |-> r.op, arg |-> r.arg, ret |-> r.out.ret,
                call_exc |-> r.out.exc, warned |-> r.out.warned,
                saved |-> r.out.saved, data |-> r.out.data]
    /\ returned' = IF r.op = "add" /\ r.exc = "none"
                   THEN Append(returned, GetKey(r.out.ret, "id"))
                   ELSE returned
    /\ UNCHANGED <<proc, calls, ref>>

NextCli == \E argv \in Argvs, now \in Times : Main(argv, now)

SpecCli == InitCli /\ [][NextCli]_vars

(***************************************************************************)
(* The task manager on a store whose file parses to a dict that has both   *)
(* keys but is not a Document.                                             *)
(***************************************************************************)
\* {"tasks": "a", "next_id": 1}, {"tasks": 1, "next_id": 1},
\* {"tasks": [1], "next_id": 2}, {"tasks": [{"description": "a"}], "next_id": 2},
\* {"tasks": [], "next_id": "1"}, {"tasks": [{"id": "1"}], "next_id": 2}
WrongShapeTexts ==
    {<<LBrace, KeyTok("tasks"), StrTok("a"), KeyTok("next_id"), IntTok(1), RBrace>>,
     <<LBrace, KeyTok("tasks"), IntTok(1), KeyTok("next_id"), IntTok(1), RBrace>>,
     <<LBrace, KeyTok("tasks"), LBracket, IntTok(1), RBracket,
       KeyTok("next_id"), IntTok(2), RBrace>>,
     <<LBrace, KeyTok("tasks"), LBracket, LBrace, KeyTok("description"), StrTok("a"),
       RBrace, RBracket, KeyTok("next_id"), IntTok(2), RBrace>>,
     <<LBrace, KeyTok("tasks"), LBracket, RBracket,
       KeyTok("next_id"), StrTok("1"), RBrace>>,
     <<LBrace, KeyTok("tasks"), LBracket, LBrace, KeyTok("id"), StrTok("1"),
       RBrace, RBracket, KeyTok("next_id"), IntTok(2), RBrace>>}

InitShape ==
    /\ fs \in {StoreWith(t) : t \in WrongShapeTexts}
    /\ prev = fs
    /\ last = NoCall
    /\ returned = <<>>
    /\ proc = [p \in Procs |-> IdleProc]
    /\ calls = 0
    /\ ref = NoRef

NextShape ==
    \/ Load
    \/ \E d \in Descriptions, now \in Times : StoreAdd(d, now)
    \/ List
    \/ \E id \in StoreTaskIds : Complete(id)
    \/ \E id \in StoreTaskIds : Delete(id)
    \/ \E id \in StoreTaskIds : Get(id)

SpecShape == InitShape /\ [][NextShape]_vars

(***************************************************************************)
(* save_data step by step.  A call loads and changes its data in memory at *)
(* once (Begin); a call that saves then goes through save_data one system  *)
(* call at a time: open the temporary file, write it a buffer at a time,   *)
(* close it, rename it.  Process p uses descriptor p.                      *)
(***************************************************************************)
\* the call returns (or raises exc) to its caller
Return(p, ret, exc) ==
    /\ prev' = proc[p].before
    /\ last' = [op |-> proc[p].op, arg |-> proc[p].arg, ret |-> ret, exc |-> exc,
                warned |-> proc[p].warned, saved |-> TRUE, data |-> proc[p].data]
    /\ returned' = IF proc[p].op = "add" /\ exc = "none"
                   THEN Append(returned, GetKey(ret, "id"))
                   ELSE returned
    /\ proc' = [proc EXCEPT ![p] = IdleProc]

\* out is what the call computes from the file it loads: without a save the
\* call is over, with one the process enters save_data
Begin(p, op, arg, out) ==
    /\ proc[p].pc = "idle"
    /\ calls < MaxProcCalls
    /\ calls' = calls + 1
    /\ fs' = fs
    /\ ref' = ref
    /\ IF out.saved
       THEN /\ proc' = [proc EXCEPT ![p] =
                           [pc |-> "open", op |-> op, arg |-> arg, ret |-> out.ret,
                            data |-> out.data, warned |-> out.warned, off |-> 0,
                            before |-> fs]]
            /\ UNCHANGED <<prev, last, returned>>
       ELSE /\ prev' = fs
            /\ last' = Call(op, arg, out)
            /\ UNCHANGED <<returned, proc>>

ProcAdd(p, description, now) ==
    Begin(p, "add", JStr(description), add_task(fs, description, now))

ProcComplete(p, task_id) ==
    Begin(p, "complete", JInt(task_id), complete_task(fs, task_id))

ProcDelete(p, task_id) ==
    Begin(p, "delete", JInt(task_id), delete_task(fs, task_id))

\* with open(temp_file, 'w', encoding='utf-8') as f
OpenTemp(p) ==
    /\ proc[p].pc = "open"
    /\ FsOpenWExc(fs, temp_file) = "none"
    /\ fs' = FsOpenW(fs, temp_file, p)
    /\ proc' = [proc EXCEPT ![p].pc = "write"]
    /\ UNCHANGED <<prev, last, returned, calls, ref>>

\* json.dump(data, f): the next buffer of the text reaches the file
WriteChunk(p) ==
    LET buf == json_dump(proc[p].data)
        off == proc[p].off
        end == IF off + ChunkTokens < Len(buf) THEN off + ChunkTokens ELSE Len(buf)
    IN /\ proc[p].pc = "write"
       /\ off < Len(buf)
       /\ fs' = FsWrite(fs, p, off, SubSeq(buf, off + 1, end))
       /\ proc' = [proc EXCEPT ![p].off = end]
       /\ UNCHANGED <<prev, last, returned, calls, ref>>

\* the end of the with block: f.close()
CloseTemp(p) ==
    /\ proc[p].pc = "write"
    /\ proc[p].off = Len(json_dump(proc[p].data))
    /\ fs' = FsClose(fs, p)
    /\ proc' = [proc EXCEPT ![p].pc = "replace"]
    /\ UNCHANGED <<prev, last, returned, calls, ref>>

\* temp_file.replace(STORAGE_FILE), and the return of the call; without a
\* file of that name replace raises FileNotFoundError, which save_data
\* reports and raises again
ReplaceTemp(p) ==
    /\ proc[p].pc = "replace"
    /\ IF FsExists(fs, temp_file)
       THEN /\ fs' = FsReplace(fs, temp_file, STORAGE_FILE)
            /\ Return(p, proc[p].ret, "none")
       ELSE /\ fs' = fs
            /\ Return(p, JNone, "FileNotFoundError")
    /\ UNCHANGED <<calls, ref>>

\* the process is killed inside save_data; the system closes its descriptor
Crash(p) ==
    /\ proc[p].pc \in {"open", "write", "replace"}
    /\ fs' = IF proc[p].pc = "write" THEN FsClose(fs, p) ELSE fs
    /\ prev' = proc[p].before
    /\ last' = [op |-> "crash", arg |-> proc[p].arg, ret |-> JNone, exc |-> "none",
                warned |-> proc[p].warned, saved |-> FALSE, data |-> proc[p].data]
    /\ proc' = [proc EXCEPT ![p] = IdleProc]
    /\ UNCHANGED <<returned, calls, ref>>

Step(p) ==
    \/ \E d \in (IF p = 1 THEN ProcDescriptions ELSE OtherDescriptions), now \in Times :
           ProcAdd(p, d, now)
    \/ \E id \in ProcTaskIds : ProcComplete(p, id)
    \/ \E id \in ProcTaskIds : ProcDelete(p, id)
    \/ OpenTemp(p)
    \/ WriteChunk(p)
    \/ CloseTemp(p)
    \/ ReplaceTemp(p)

\* one process, which may be killed inside save_data and run again
NextCrash == Step(1) \/ Crash(1)

SpecCrash == Init /\ [][NextCrash]_vars

\* two processes on the same store, their steps interleaved in any order
NextConc == \E p \in Procs : Step(p)

SpecConc == Init /\ [][NextConc]_vars

\* the exceptions a system call of save_data raises
SaveExceptions == {"PermissionError", "OSError"}

\* a system call of save_data raises exc: mkdir or open (nothing was done
\* yet), a write or the flush of close (the with block closes the file), or
\* replace (the temporary file is complete and keeps its name).  save_data
\* prints the error and raises it again, and the task manager passes it on.
SaveFails(p, exc) ==
    /\ proc[p].pc \in {"open", "write", "replace"}
    /\ fs' = IF proc[p].pc = "write" THEN FsClose(fs, p) ELSE fs
    /\ Return(p, JNone, exc)
    /\ UNCHANGED <<calls, ref>>

ProcList(p) == Begin(p, "list", JNone, list_tasks(fs))

\* one process whose saves may fail at any of their system calls
NextFault ==
    \/ Step(1)
    \/ \E exc \in SaveExceptions : SaveFails(1, exc)
    \/ ProcList(1)

SpecFault == Init /\ [][NextFault]_vars

(***************************************************************************)
(* What the store holds, as the claims speak of it.                        *)
(***************************************************************************)
\* load_data returns on file system f, and the Document it returns
Readable(f) == load_data(f).exc = "none"
DocAt(f) == load_data(f).data
TasksAt(f) == GetKey(DocAt(f), "tasks").list
NextIdAt(f) == GetKey(DocAt(f), "next_id").int
IdOf(task) == GetKey(task, "id").int
IdsAt(f) == {IdOf(TasksAt(f)[i]) : i \in 1..Len(TasksAt(f))}

\* the value written in STORAGE_FILE, parsed without load_data's fallback
Persisted(f) == json_load(FsRead(f, STORAGE_FILE)).val

\* C1: from an empty store, the i-th successful add returns id i, and after N
\* successful adds the persisted next_id is N + 1, whatever was deleted.
IdMonotonicity ==
    /\ \A i \in 1..Len(returned) : returned[i] = JInt(i)
    /\ Len(returned) > 0 =>
          /\ FsExists(fs, STORAGE_FILE)
          /\ json_load(FsRead(fs, STORAGE_FILE)).ok
          /\ GetKey(Persisted(fs), "next_id") = JInt(Len(returned) + 1)

\* three adds, the last one after a delete
IdMonotonicityWitness ==
    /\ last.op = "add"
    /\ Len(returned) >= 3
    /\ Len(TasksAt(fs)) < Len(returned)

\* C2: an id returned by a successful add is never returned by a later add,
\* even when its task was deleted in between.
NoIdReuse ==
    \A i, j \in 1..Len(returned) : i # j => returned[i] # returned[j]

\* an add that follows the delete of a task an earlier add returned
NoIdReuseWitness ==
    /\ last.op = "add"
    /\ \E i \in 1..(Len(returned) - 1) : returned[i].int \notin IdsAt(fs)

\* C3: in every persisted Document reachable from the empty store the ids are
\* pairwise distinct, positive and less than next_id.
DocumentInvariant ==
    FsExists(fs, STORAGE_FILE) =>
        LET d == Persisted(fs)
            tasks == GetKey(d, "tasks").list
        IN /\ \A i, j \in 1..Len(tasks) : i # j => IdOf(tasks[i]) # IdOf(tasks[j])
           /\ \A i \in 1..Len(tasks) :
                 IdOf(tasks[i]) > 0 /\ IdOf(tasks[i]) < GetKey(d, "next_id").int

\* two tasks persisted after a delete removed another
DocumentInvariantWitness ==
    /\ last.op = "delete"
    /\ last.ret = JBool(TRUE)
    /\ Len(TasksAt(fs)) >= 2

\* C6: the next_id a task manager operation saves is never below the one on
\* disk before it: one more for add, the same for complete and delete.
NextIdNeverDecreases ==
    (last.op \in {"add", "complete", "delete"} /\ last.saved) =>
        /\ NextIdAt(fs) >= NextIdAt(prev)
        /\ last.op = "add" => NextIdAt(fs) = NextIdAt(prev) + 1
        /\ last.op \in {"complete", "delete"} => NextIdAt(fs) = NextIdAt(prev)

\* a delete that saved a Document whose counter is ahead of its tasks
NextIdNeverDecreasesWitness ==
    /\ last.op = "delete"
    /\ last.saved
    /\ NextIdAt(prev) > Len(TasksAt(prev)) + 1

\* C7: delete(id) with id present returns true and persists the previous
\* tasks without the entries of that id, the others unchanged and in order,
\* and the same next_id.
DeleteRemovesOnlyThatId ==
    (last.op = "delete" /\ Readable(prev) /\ last.arg.int \in IdsAt(prev)) =>
        /\ last.ret = JBool(TRUE)
        /\ last.exc = "none"
        /\ FsExists(fs, STORAGE_FILE)
        /\ json_load(FsRead(fs, STORAGE_FILE)).ok
        /\ GetKey(Persisted(fs), "tasks") =
              JList(SelectSeq(TasksAt(prev), LAMBDA t : IdOf(t) # last.arg.int))
        /\ GetKey(Persisted(fs), "next_id") = JInt(NextIdAt(prev))

\* the middle one of three tasks deleted
DeleteRemovesOnlyThatIdWitness ==
    /\ last.op = "delete"
    /\ Readable(prev)
    /\ Len(TasksAt(prev)) = 3
    /\ IdOf(TasksAt(prev)[2]) = last.arg.int
    /\ IdOf(TasksAt(prev)[1]) # last.arg.int
    /\ IdOf(TasksAt(prev)[3]) # last.arg.int

\* C8: complete(id) and delete(id) for an id that is not present return
\* false, save nothing and leave the file system as it was.
NoOpOnMiss ==
    (/\ last.op \in {"complete", "delete"}
     /\ Readable(prev)
     /\ last.arg.int \notin IdsAt(prev)) =>
        /\ last.ret = JBool(FALSE)
        /\ last.exc = "none"
        /\ ~last.saved
        /\ fs = prev

\* complete(0) missing in a store that holds tasks
NoOpOnMissWitness ==
    /\ last.op = "complete"
    /\ last.arg = JInt(0)
    /\ Readable(prev)
    /\ Len(TasksAt(prev)) > 0

\* C9: after save(d), load() returns d, without a warning.
RoundTrip ==
    last.saved => load_data(fs) = Loaded(last.data, FALSE)

\* save_data called with a Document of two tasks
RoundTripWitness ==
    /\ last.op = "save"
    /\ Len(GetKey(last.data, "tasks").list) = 2

\* C10: load() of a file that does not parse to a Document returns the
\* default Document with a warning and raises nothing; of a missing file,
\* the same without warning.
CorruptionFallback ==
    last.op = "load" =>
        /\ ~FsExists(prev, STORAGE_FILE) =>
              last.ret = DefaultData /\ ~last.warned /\ last.exc = "none"
        /\ (FsExists(prev, STORAGE_FILE) /\ FsRead(prev, STORAGE_FILE) \in CorruptTexts) =>
              last.ret = DefaultData /\ last.warned /\ last.exc = "none"

\* load() of a file that holds a Document without next_id
CorruptionFallbackWitness ==
    /\ last.op = "load"
    /\ FsExists(prev, STORAGE_FILE)
    /\ FsRead(prev, STORAGE_FILE) = <<LBrace, KeyTok("tasks"), LBracket, RBracket, RBrace>>

\* what a reader finds under the name STORAGE_FILE: no file, or its text
Canonical(f) ==
    IF FsExists(f, STORAGE_FILE)
    THEN [exists |-> TRUE, text |-> FsRead(f, STORAGE_FILE)]
    ELSE [exists |-> FALSE, text |-> <<>>]

\* C4: while save_data runs, and after it was killed at any of its steps,
\* STORAGE_FILE holds the complete previous Document or the complete new
\* one, and a load after the kill returns one of the two.
AtomicSave ==
    /\ \A p \in Procs :
          proc[p].pc # "idle" =>
              \/ Canonical(fs) = Canonical(proc[p].before)
              \/ Canonical(fs) = [exists |-> TRUE, text |-> json_dump(proc[p].data)]
    /\ last.op = "crash" =>
          /\ \/ Canonical(fs) = Canonical(prev)
             \/ Canonical(fs) = [exists |-> TRUE, text |-> json_dump(last.data)]
          /\ Readable(fs)
          /\ DocAt(fs) \in {DocAt(prev), last.data}

\* killed while the temporary file holds a part of a Document that replaces
\* a Document with a task
AtomicSaveWitness ==
    /\ last.op = "crash"
    /\ FsExists(fs, temp_file)
    /\ FsRead(fs, temp_file) # <<>>
    /\ ~json_load(FsRead(fs, temp_file)).ok
    /\ Len(TasksAt(fs)) > 0

\* C5: with two processes saving concurrently, STORAGE_FILE at every moment
\* holds one complete Document, never a partial or mixed one.
PerSaveConsistency ==
    FsExists(fs, STORAGE_FILE) =>
        LET r == json_load(FsRead(fs, STORAGE_FILE)) IN
        /\ r.ok
        /\ r.val.t = "dict"
        /\ HasKey(r.val, "tasks") /\ HasKey(r.val, "next_id")
        /\ FsRead(fs, STORAGE_FILE) = json_dump(r.val)

\* C11: load() of a file that parses to a dict with both keys but of the
\* wrong shape returns the default Document with a warning, and no add,
\* list, complete, delete or get fails on a wrongly shaped Document.
WrongShapeFallback ==
    /\ (/\ last.op = "load"
         /\ FsExists(prev, STORAGE_FILE)
         /\ FsRead(prev, STORAGE_FILE) \in WrongShapeTexts) =>
            last.ret = DefaultData /\ last.warned
    /\ last.op \in {"add", "list", "complete", "delete", "get"} =>
            last.exc \notin {"AttributeError", "TypeError", "KeyError"}

\* C12: load(), list() and get(id) leave the file system exactly as it was,
\* whatever the store holds; so do complete and delete that miss; the file
\* system changes only in a call that runs save_data.
ReadPathsNeverWrite ==
    /\ last.op \in {"load", "list", "get"} => fs = prev
    /\ (last.op \in {"complete", "delete"} /\ ~last.saved) => fs = prev
    /\ fs # prev => last.saved

\* list() on the corrupted file  {invalid json , which is still there
ReadPathsNeverWriteWitness ==
    /\ last.op = "list"
    /\ last.warned
    /\ FsExists(fs, STORAGE_FILE)
    /\ FsRead(fs, STORAGE_FILE) = <<LBrace, Junk, Junk>>

\* C13: add(description) on a loaded Document returns the task with id the
\* previous next_id, the description as given and completed false, and
\* persists the previous tasks followed by that task, with next_id one
\* higher; list() then returns that sequence.
AddAppends ==
    (last.op = "add" /\ Readable(prev)) =>
        /\ last.exc = "none"
        /\ last.ret.t = "dict"
        /\ GetKey(last.ret, "id") = JInt(NextIdAt(prev))
        /\ GetKey(last.ret, "description") = last.arg
        /\ GetKey(last.ret, "completed") = JBool(FALSE)
        /\ FsExists(fs, STORAGE_FILE)
        /\ json_load(FsRead(fs, STORAGE_FILE)).ok
        /\ GetKey(Persisted(fs), "tasks") = JList(Append(TasksAt(prev), last.ret))
        /\ GetKey(Persisted(fs), "next_id") = JInt(NextIdAt(prev) + 1)
        /\ list_tasks(fs).ret = JList(Append(TasksAt(prev), last.ret))

\* add("") on a Document of two tasks whose next_id is not their number + 1
AddAppendsWitness ==
    /\ last.op = "add"
    /\ last.arg = JStr("")
    /\ Readable(prev)
    /\ Len(TasksAt(prev)) = 2
    /\ NextIdAt(prev) # 3

\* the first index of s whose task has the id n
FirstWithId(s, n) ==
    CHOOSE i \in 1..Len(s) : IdOf(s[i]) = n /\ \A j \in 1..(i - 1) : IdOf(s[j]) # n

\* C14: complete(id) with id present returns true and persists the previous
\* Document with completed = true in the first task of that id: its id,
\* description and created_at, the other tasks, the order and next_id are
\* unchanged.
CompleteChangesOnlyFlag ==
    (last.op = "complete" /\ Readable(prev) /\ last.arg.int \in IdsAt(prev)) =>
        LET s == TasksAt(prev)
            i == FirstWithId(s, last.arg.int)
        IN /\ last.ret = JBool(TRUE)
           /\ last.exc = "none"
           /\ FsExists(fs, STORAGE_FILE)
           /\ json_load(FsRead(fs, STORAGE_FILE)).ok
           /\ LET t == GetKey(Persisted(fs), "tasks") IN
              /\ t.t = "list"
              /\ Len(t.list) = Len(s)
              /\ \A j \in 1..Len(s) : j # i => t.list[j] = s[j]
              /\ t.list[i] = TaskOf(IdOf(s[i]),
                                    GetKey(s[i], "description").str,
                                    TRUE,
                                    GetKey(s[i], "created_at").str)
           /\ GetKey(Persisted(fs), "next_id") = JInt(NextIdAt(prev))

\* complete(id) on two tasks that both have that id: only the first changes
CompleteChangesOnlyFlagWitness ==
    /\ last.op = "complete"
    /\ Readable(prev)
    /\ Len(TasksAt(prev)) = 2
    /\ IdOf(TasksAt(prev)[1]) = last.arg.int
    /\ IdOf(TasksAt(prev)[2]) = last.arg.int
    /\ GetKey(TasksAt(prev)[1], "completed") = JBool(FALSE)

\* C15 as it is worded: get(id) returns the first task with that id and is
\* absent exactly when there is none; after add returned task t, get(t.id)
\* returns a task equal to t until t is deleted, and is absent after a
\* successful delete.
GetReturnsAddedTask ==
    /\ (last.op = "get" /\ last.arg.int \in IdsAt(prev)) =>
           last.ret = TasksAt(prev)[FirstWithId(TasksAt(prev), last.arg.int)]
    /\ (last.op = "get" /\ last.arg.int \notin IdsAt(prev)) => last.ret = JNone
    /\ (last.op = "delete" /\ last.ret = JBool(TRUE)) =>
           get_task(fs, last.arg.int).ret = JNone
    /\ \A i \in 1..Len(returned) :
           IdOf(returned[i]) \in IdsAt(fs) =>
               get_task(fs, IdOf(returned[i])).ret = returned[i]

\* C15, amended: the same, except that the task get(t.id) returns has
\* completed = true once t was completed; its id, description and
\* created_at are those of t.
GetFindsTask ==
    /\ last.op = "get" => last.exc = "none"
    /\ (last.op = "get" /\ last.arg.int \in IdsAt(prev)) =>
           last.ret = TasksAt(prev)[FirstWithId(TasksAt(prev), last.arg.int)]
    /\ (last.op = "get" /\ last.arg.int \notin IdsAt(prev)) => last.ret = JNone
    /\ (last.op = "delete" /\ last.ret = JBool(TRUE)) =>
           get_task(fs, last.arg.int).ret = JNone
    /\ last.op = "add" => get_task(fs, IdOf(last.ret)).ret = last.ret
    /\ \A i \in 1..Len(returned) :
           IdOf(returned[i]) \in IdsAt(fs) =>
               get_task(fs, IdOf(returned[i])).ret \in
                   {returned[i], SetKey(returned[i], "completed", JBool(TRUE))}

\* get(1) finds the first task added, completed since, after the second
\* task added was deleted
GetFindsTaskWitness ==
    /\ last.op = "get"
    /\ last.arg = JInt(1)
    /\ Len(returned) = 2
    /\ IdsAt(fs) = {1}
    /\ last.ret = SetKey(returned[1], "completed", JBool(TRUE))

\* C16: when STORAGE_FILE exists and reading it fails, load() and the
\* operation that called it raise that exception, nothing is saved and the
\* file system is as it was.
ReadFailuresRaise ==
    (/\ last.op \in {"load", "add", "list", "complete", "delete", "get"}
     /\ FsExists(prev, STORAGE_FILE)
     /\ FsReadExc(prev, STORAGE_FILE) # "none") =>
        /\ last.exc = FsReadExc(prev, STORAGE_FILE)
        /\ last.ret # DefaultData
        /\ ~last.saved
        /\ fs = prev

\* add on a store whose file denies reading
ReadFailuresRaiseWitness ==
    /\ last.op = "add"
    /\ FsExists(prev, STORAGE_FILE)
    /\ FsReadExc(prev, STORAGE_FILE) = "PermissionError"
    /\ fs = prev

\* a task of the reference as the Python value
TaskValue(t) == TaskOf(t.id, t.description, t.completed, t.created_at)
TaskValues(s) == JList([i \in 1..Len(s) |-> TaskValue(s[i])])

\* C20: from the empty store, after any calls of one process, list() returns
\* the tasks of the reference (those added and not deleted, in insertion
\* order, completed where they were completed), next_id is its counter, and
\* every call returned what the reference returned.
RefinesReference ==
    /\ list_tasks(fs).exc = "none"
    /\ list_tasks(fs).ret = TaskValues(ref.tasks)
    /\ NextIdAt(fs) = ref.next_id
    /\ last.exc = "none"
    /\ last.op = "add" => last.ret = TaskValue(ref.ret)
    /\ last.op = "list" => last.ret = TaskValues(ref.ret)
    /\ last.op \in {"complete", "delete"} => last.ret = JBool(ref.ret)
    /\ last.op = "get" =>
           last.ret = (IF ref.ret = Absent THEN JNone ELSE TaskValue(ref.ret))

\* list() after three adds, a complete and the delete of another task
RefinesReferenceWitness ==
    /\ last.op = "list"
    /\ ref.next_id = 4
    /\ Len(ref.tasks) = 2
    /\ ref.tasks[2].completed
    /\ ~ref.tasks[1].completed

\* C17: nothing locks or merges.  What a process saves is the Document it
\* loaded with its own change, whatever was saved since, and its rename
\* puts the temporary file in the place of whatever STORAGE_FILE holds; so
\* the later of two saves that started from the same Document wins, and the
\* update of the earlier one is lost.
LastWriterWins ==
    [][\A p \in Procs :
          /\ (proc[p].pc # "idle" /\ proc[p].op = "add") =>
                 GetKey(proc[p].data, "tasks") =
                     JList(Append(TasksAt(proc[p].before), proc[p].ret))
          /\ (proc[p].pc = "replace" /\ proc'[p].pc = "idle" /\ last'.exc = "none") =>
                 /\ FsExists(fs', STORAGE_FILE)
                 /\ FsRead(fs', STORAGE_FILE) = FsRead(fs, temp_file)]_vars

\* both processes loaded the missing store, both adds returned a task with
\* id 1, and the Document persisted in the end holds the task of the second
\* process only
LastWriterWinsWitness ==
    /\ \A p \in Procs : proc[p].pc = "idle"
    /\ returned = <<JInt(1), JInt(1)>>
    /\ last.op = "add"
    /\ last.exc = "none"
    /\ last.arg = JStr("b")
    /\ Readable(fs)
    /\ TasksAt(fs) = <<last.ret>>
    /\ \A i \in 1..Len(TasksAt(fs)) : GetKey(TasksAt(fs)[i], "description") # JStr("a")

(***************************************************************************)
(* The command line.                                                       *)
(***************************************************************************)
\* STORAGE_FILE exists on f and load_data returns what it holds
Stored(f) ==
    FsExists(f, STORAGE_FILE) /\ Readable(f) /\ ~load_data(f).warned

\* the words of ArgLists that are integers, and their values
IntegerWords == {<<"1">>, <<"-", "1">>, <<" ", "2">>}
WordValue(w) ==
    CASE w = <<"1">> -> 1 [] w = <<"-", "1">> -> 0 - 1 [] w = <<" ", "2">> -> 2

\* the command and the arguments of the last run
LastCommand == IF Len(last.argv) < 2 THEN "" ELSE Text(Lower(last.argv[2]))
LastArgs == SubSeq(last.argv, 3, Len(last.argv))

\* the last run asked for something the command layer must refuse
BadRequest ==
    \/ LastCommand = "add" /\ LastArgs = <<>>
    \/ /\ LastCommand \in {"done", "delete"}
       /\ LastArgs = <<>> \/ LastArgs[1] \notin IntegerWords

\* the last run named, by an integer, a task the store did not hold
AbsentId ==
    /\ LastCommand \in {"done", "delete"}
    /\ LastArgs # <<>> /\ LastArgs[1] \in IntegerWords
    /\ Readable(prev)
    /\ WordValue(LastArgs[1]) \notin IdsAt(prev)

\* the task manager call of the last run succeeded
Succeeded ==
    /\ last.call \in {"add", "list", "complete", "delete"}
    /\ last.call_exc = "none"
    /\ last.call \in {"complete", "delete"} => last.ret = JBool(TRUE)

\* C18: a run of add with no argument, or of done or delete with no
\* argument or with a first argument that is no integer, ends with a
\* non-zero exit status, makes no task manager call and leaves the file
\* system as it was; a run of done or delete with an integer that is the id
\* of no task ends with a non-zero exit status; a run whose add, list, done
\* or delete succeeded ends with exit status 0.
BadRequestsRejected ==
    last.op = "main" =>
        /\ BadRequest => last.status # 0 /\ last.call = "none" /\ fs = prev
        /\ AbsentId => last.status # 0
        /\ Succeeded => last.status = 0 /\ last.exc = "none"

\* a non-integer argument was refused while the store held a task
BadRequestsRejectedWitness ==
    /\ last.op = "main"
    /\ LastCommand = "done" /\ LastArgs = << <<"1", ".", "5">> >>
    /\ last.status = 1 /\ last.call = "none"
    /\ Stored(fs) /\ Len(TasksAt(fs)) = 1

\* the load of the last run took the corruption fallback, and nothing raised
FellBack == last.op = "main" /\ last.warned /\ last.call_exc = "none"

\* load_data or save_data raised in the last run
StorageRaised ==
    /\ last.op = "main"
    /\ last.call # "none"
    /\ last.call_exc \in ReadExceptions \cup WriteExceptions \cup {"UnicodeDecodeError"}

\* C19, as stated: a command whose load took the corruption fallback
\* finishes normally, with exit status 0.
FallbackFinishesNormally == FellBack => last.status = 0

\* C19: a command whose load took the corruption fallback works on the
\* default Document: add stores its task with id 1 as the only task and
\* list finds no task, both with exit status 0, and done and delete find no
\* task, change nothing and end with a non-zero exit status; a command in
\* which load_data or save_data raised ends with a non-zero exit status and
\* the store as it was; an unknown or a missing command ends with a non-zero
\* exit status, no task manager call and the file system as it was.
CommandOutcome ==
    last.op = "main" =>
        /\ FellBack =>
               /\ last.call = "add" =>
                      /\ last.status = 0
                      /\ Stored(fs) /\ Len(TasksAt(fs)) = 1
                      /\ IdsAt(fs) = {1} /\ NextIdAt(fs) = 2
               /\ last.call = "list" =>
                      last.status = 0 /\ last.ret = JList(<<>>) /\ fs = prev
               /\ last.call \in {"complete", "delete"} =>
                      last.status # 0 /\ last.ret = JBool(FALSE) /\ fs = prev
        /\ StorageRaised => last.status # 0 /\ fs = prev
        /\ Len(last.argv) < 2 \/ LastCommand \notin CommandNames =>
               last.status # 0 /\ last.call = "none" /\ fs = prev

\* add went on after the fallback and replaced the corrupted store
CommandOutcomeWitness ==
    /\ FellBack /\ last.call = "add" /\ last.status = 0
    /\ FsExists(prev, STORAGE_FILE) /\ ~Stored(prev)
    /\ Stored(fs)

(***************************************************************************)
(* The task manager after the store was corrupted.                         *)
(***************************************************************************)
\* STORAGE_FILE exists on f and its text is not a Document
Corrupted(f) ==
    FsExists(f, STORAGE_FILE) /\ FsRead(f, STORAGE_FILE) \in CorruptTexts

\* C21: on a corrupted store, add returns a task with id 1 and leaves in
\* STORAGE_FILE the Document that holds only that task, with next_id 2;
\* complete and delete of any id return false and leave the corrupted file
\* as it is.
MutationAfterCorruption ==
    Corrupted(prev) =>
        /\ last.op = "add" =>
              /\ last.exc = "none"
              /\ GetKey(last.ret, "id") = JInt(1)
              /\ json_load(FsRead(fs, STORAGE_FILE)).ok
              /\ Persisted(fs) = DocOf(<<last.ret>>, 2)
        /\ last.op \in {"complete", "delete"} =>
              /\ last.exc = "none"
              /\ last.ret = JBool(FALSE)
              /\ fs = prev

\* C21 on the stores whose text is malformed JSON or JSON of the wrong
\* structure, for which load_data takes the fallback
MutationAfterFallback ==
    (Corrupted(prev) /\ FsRead(prev, STORAGE_FILE) \in MalformedTexts) =>
        /\ last.op = "add" =>
              /\ last.exc = "none"
              /\ GetKey(last.ret, "id") = JInt(1)
              /\ json_load(FsRead(fs, STORAGE_FILE)).ok
              /\ Persisted(fs) = DocOf(<<last.ret>>, 2)
        /\ last.op \in {"complete", "delete"} =>
              /\ last.exc = "none"
              /\ last.ret = JBool(FALSE)
              /\ fs = prev

(***************************************************************************)
(* Saves that fail.                                                        *)
(***************************************************************************)
\* the last call was an add, complete or delete whose save_data raised
SaveRaised ==
    /\ last.op \in {"add", "complete", "delete"}
    /\ last.saved
    /\ last.exc # "none"

\* C22: after an add, complete or delete whose save_data raised, STORAGE_FILE
\* holds what it held before the call (or is still missing), the caller got
\* the exception and no value, and list_tasks returns the tasks as they were
\* before the call.
FailedSaveChangesNothing ==
    SaveRaised =>
        /\ Canonical(fs) = Canonical(prev)
        /\ last.exc \in SaveExceptions /\ last.ret = JNone
        /\ list_tasks(fs).exc = "none"
        /\ list_tasks(fs).ret = list_tasks(prev).ret

\* a complete whose save failed while writing: the temporary file holds the
\* beginning of the new Document, the store still the task not completed
FailedSaveChangesNothingWitness ==
    /\ SaveRaised
    /\ last.op = "complete"
    /\ FsExists(fs, temp_file)
    /\ FsRead(fs, temp_file) # <<>>
    /\ ~json_load(FsRead(fs, temp_file)).ok
    /\ Len(TasksAt(fs)) > 0
    /\ \A i \in 1..Len(TasksAt(fs)) : GetKey(TasksAt(fs)[i], "completed") = JBool(FALSE)

(***************************************************************************)
(* The order of the tasks, and their completion.                           *)
(***************************************************************************)
\* C23: in every Document persisted after any calls of add, complete and
\* delete on the empty store, the ids of the tasks, read from first to last,
\* are strictly increasing; the tasks list() returns are those persisted, in
\* that order, which is the order in which they were added.
IdOrder ==
    FsExists(fs, STORAGE_FILE) =>
        LET tasks == GetKey(Persisted(fs), "tasks").list IN
        /\ \A i, j \in 1..Len(tasks) : i < j => IdOf(tasks[i]) < IdOf(tasks[j])
        /\ list_tasks(fs).ret = JList(tasks)
        /\ JList(tasks) = TaskValues(ref.tasks)

\* an add after the first of two tasks was deleted: the Document holds the
\* tasks 2 and 3
IdOrderWitness ==
    /\ last.op = "add"
    /\ FsExists(fs, STORAGE_FILE)
    /\ Len(TasksAt(fs)) = 2
    /\ IdOf(TasksAt(fs)[1]) = 2
    /\ IdOf(TasksAt(fs)[2]) = 3

\* the ids of the tasks f holds with the flag completed set, and not set
CompletedIds(f) ==
    {IdOf(TasksAt(f)[i]) :
        i \in {k \in 1..Len(TasksAt(f)) : GetKey(TasksAt(f)[k], "completed") = JBool(TRUE)}}
OpenIds(f) ==
    {IdOf(TasksAt(f)[i]) :
        i \in {k \in 1..Len(TasksAt(f)) : GetKey(TasksAt(f)[k], "completed") # JBool(TRUE)}}

\* C24: the task add returns and persists has completed = false; a task
\* that was completed in the Document before a call is, if the Document
\* after the call still holds it, completed there too; and complete(id) of a
\* task already completed returns true.
CompletionPermanent ==
    /\ (last.op = "add" /\ last.exc = "none") =>
           /\ GetKey(last.ret, "completed") = JBool(FALSE)
           /\ IdOf(last.ret) \in OpenIds(fs)
    /\ CompletedIds(prev) \cap IdsAt(fs) \subseteq CompletedIds(fs)
    /\ CompletedIds(prev) \cap OpenIds(fs) = {}
    /\ (last.op = "complete" /\ last.arg.int \in CompletedIds(prev)) =>
           last.ret = JBool(TRUE) /\ last.exc = "none"

\* complete(id) of a task that was completed already, next to a task that is
\* not
CompletionPermanentWitness ==
    /\ last.op = "complete"
    /\ last.arg.int \in CompletedIds(prev)
    /\ last.arg.int \in CompletedIds(fs)
    /\ OpenIds(fs) # {}

====
